---- MODULE Spec2Model ----
(***************************************************************************)
(* KilometriTracker: the Trip store, the MonthlyReport store and the       *)
(* report-generation request (GenerateReportView.post), with the period    *)
(* and trip validators it rests on.                                        *)
(*                                                                         *)
(* Decimal(…, 2 places) values are integers in hundredths of a kilometre   *)
(* (300.00 km = 30000).  Dates are triples <<year, month, day>>.           *)
(* Each store access of a request is one atomic step; requests interleave  *)
(* between store accesses (autocommit, no ATOMIC_REQUESTS).                *)
(***************************************************************************)
EXTENDS Integers, Sequences, FiniteSets, TLC

\* Bounds of the model.
MaxTrips == 2
MaxReqs == 2
MaxCalls == 2
MaxMeters == 20
MaxDays == 2

Users == {"sami", "anna"}
Reqs == 1..MaxReqs

VARIABLES
    today,        \* date.today(), fixed during a behaviour
    trips,        \* Trip table: set of rows
    nextTripId,   \* next Trip primary key
    reports,      \* MonthlyReport table: set of rows
    nextReportId, \* next MonthlyReport primary key
    outbox,       \* messages handed to the e-mail backend
    pc,           \* position of each generation request in post()
    req,          \* request.user and validated_data of each request
    local,        \* trip_count / total_km locals of each request
    outcome,      \* the Response of each finished request
    undisturbed,  \* history: no Trip write committed while the request is in flight
    snaps,        \* history: (count, sum) of the period in each store state of a traced request
    last,         \* the Response of the latest single-step request
    summ,         \* the monthly-summary request: position and locals of get()
    clock,        \* time.time(), in seconds
    hits,         \* the rate limiter's cache: key -> window and count
    admitted,     \* history: lookups that reached the view, per user and second
    providerCalls,\* history: outbound calls made to the distance provider
    accounts      \* User table: the names of the accounts

vars == <<today, trips, nextTripId, reports, nextReportId, outbox,
          pc, req, local, outcome, undisturbed, snaps,
          last, summ, clock, hits, admitted, providerCalls, accounts>>

\* The state of the summary endpoint and of the distance endpoint.
summaryVars == <<summ>>
distanceVars == <<clock, hits, admitted, providerCalls>>
accountVars == <<accounts>>

NoReq == [user |-> "", year |-> 0, month |-> 0]
NoLocal == [trip_count |-> 0, total_km |-> 0]
NoOutcome == [status |-> 0, kind |-> "none"]
Null == "null"
NoLast == [op |-> "none", status |-> 0]
NoSumm == [pc |-> "idle", user |-> "", year |-> 0, month |-> 0, trip_count |-> 0,
           total_km |-> 0, manual_count |-> 0, automatic_count |-> 0,
           fetched |-> FALSE, trips |-> {}, status |-> 0]

----------------------------------------------------------------------------
\* Calendar (datetime.date).

IsLeap(y) == (y % 4 = 0) /\ ((y % 100 # 0) \/ (y % 400 = 0))

DaysInMonth(y, m) ==
    IF m = 2 THEN (IF IsLeap(y) THEN 29 ELSE 28)
    ELSE IF m \in {4, 6, 9, 11} THEN 30 ELSE 31

RECURSIVE DaysBeforeMonth(_, _)
DaysBeforeMonth(y, m) ==
    IF m <= 1 THEN 0 ELSE DaysBeforeMonth(y, m - 1) + DaysInMonth(y, m - 1)

DaysBeforeYear(y) ==
    (y - 1) * 365 + ((y - 1) \div 4) - ((y - 1) \div 100) + ((y - 1) \div 400)

\* date.toordinal(): the proleptic Gregorian day number.
ToOrdinal(d) == DaysBeforeYear(d[1]) + DaysBeforeMonth(d[1], d[2]) + d[3]

\* value > other on dates.
DateAfter(a, b) ==
    \/ a[1] > b[1]
    \/ a[1] = b[1] /\ a[2] > b[2]
    \/ a[1] = b[1] /\ a[2] = b[2] /\ a[3] > b[3]

----------------------------------------------------------------------------
\* Validators (apps/core/validators.py).

\* Mutant: the upper limit itself is refused.
validate_distance_exclusive(value) ==
    IF value <= 0 THEN "invalid_distance_negative"
    ELSE IF value >= 1000000 THEN "invalid_distance_too_high"
    ELSE "ok"

validate_distance(value) ==
    IF value <= 0 THEN "invalid_distance_negative"
    ELSE IF value > 1000000 THEN "invalid_distance_too_high"
    ELSE "ok"

\* The warnings validate_distance logs: one for a value that passed and is
\* a multiple of 100 km, 100 km or more.
validate_distance_warnings(value) ==
    IF validate_distance(value) = "ok" /\ value % 10000 = 0 /\ value >= 10000
    THEN 1 ELSE 0

\* Mutant: "two years" is the same day two calendar years earlier.
validate_trip_date_calendar_years(value, now) ==
    IF DateAfter(value, now) THEN "invalid_date_future"
    ELSE IF DateAfter(<<now[1] - 2, now[2], now[3]>>, value) THEN "invalid_date_too_old"
    ELSE "ok"

validate_trip_date(value, now) ==
    IF DateAfter(value, now) THEN "invalid_date_future"
    ELSE IF ToOrdinal(value) < ToOrdinal(now) - 730 THEN "invalid_date_too_old"
    ELSE "ok"

\* Mutant: the year rules run before the month rule.
validate_year_month_year_first(year, month, now) ==
    IF year < 2020 THEN "invalid_year_too_old"
    ELSE IF year > now[1] + 1 THEN "invalid_year_future"
    ELSE IF ~(1 <= month /\ month <= 12) THEN "invalid_month"
    ELSE IF DateAfter(<<year, month, 1>>, now) THEN "invalid_report_date_future"
    ELSE "ok"

validate_year_month(year, month, now) ==
    IF ~(1 <= month /\ month <= 12) THEN "invalid_month"
    ELSE IF year < 2020 THEN "invalid_year_too_old"
    ELSE IF year > now[1] + 1 THEN "invalid_year_future"
    ELSE IF DateAfter(<<year, month, 1>>, now) THEN "invalid_report_date_future"
    ELSE "ok"

\* ReportGenerateSerializer: the declared fields run first, validate() only
\* when both fields passed.
ReportGenerateFieldsValid(year, month) ==
    /\ 2020 <= year /\ year <= 2030
    /\ 1 <= month /\ month <= 12

ReportGenerateIsValid(year, month, now) ==
    /\ ReportGenerateFieldsValid(year, month)
    /\ validate_year_month(year, month, now) = "ok"

\* Mutant: the field has no upper limit of its own.
DistanceFieldValidNoMax(value) == value > 1

\* Trip.distance_km as a serializer field: max_digits=8, decimal_places=2 and
\* the model's Min/MaxValueValidator, whose limits are the floats 0.01 and
\* 9999.99: Decimal("0.01") < 0.01 and Decimal("9999.99") > 9999.99 both hold.
DistanceFieldValid(value) ==
    /\ value > 1
    /\ value < 999999

TripInputValid(data, now) ==
    /\ ("date" \in DOMAIN data) => validate_trip_date(data.date, now) = "ok"
    /\ ("distance_km" \in DOMAIN data) =>
          /\ DistanceFieldValid(data.distance_km)
          /\ validate_distance(data.distance_km) = "ok"

----------------------------------------------------------------------------
\* Queries.

\* Mutant: the owner filter is forgotten.
TripsOfAnyUser(ts, user, year, month) ==
    {t \in ts : t.date[1] = year /\ t.date[2] = month}

\* Trip.objects.filter(user=user, date__year=year, date__month=month)
TripsOf(ts, user, year, month) ==
    {t \in ts : t.user = user /\ t.date[1] = year /\ t.date[2] = month}

RECURSIVE SumKm(_)
SumKm(ts) ==
    IF ts = {} THEN 0
    ELSE LET t == CHOOSE x \in ts : TRUE
         IN t.distance_km + SumKm(ts \ {t})

\* trips.aggregate(total=Sum("distance_km"))["total"] or Decimal("0.00")
TotalKm(ts) == SumKm(ts)

\* Mutant: the existing report is looked up without its owner.
ReportsOfAnyUser(rs, user, year, month) ==
    {x \in rs : x.year = year /\ x.month = month}

\* MonthlyReport.objects.filter(user=user, year=year, month=month)
ReportsOf(rs, user, year, month) ==
    {x \in rs : x.user = user /\ x.year = year /\ x.month = month}

\* Mutant: the table has no uniqueness constraint.
UniqueViolationNone(rs, user, year, month) == FALSE

\* unique_together = ("user", "year", "month")
UniqueViolation(rs, user, year, month) == ReportsOf(rs, user, year, month) # {}

\* Trip.objects.create(user=user, **validated_data): validated_data holds
\* the serializer's fields only, so route_data keeps its default, NULL.
TripRow(id, u, data) ==
    [id |-> id, user |-> u, date |-> data.date,
     distance_km |-> data.distance_km, is_manual |-> data.is_manual,
     route_data |-> Null]

\* TripUpdateSerializer.Meta.fields, as far as the rows carry them.
TripUpdateFields == {"date", "distance_km"}

\* MonthlyReport.objects.create(user, year, month, total_km, trip_count):
\* the files and sent_at keep their default, NULL.
ReportRow(id, u, year, month, total_km, trip_count) ==
    [id |-> id, user |-> u, year |-> year, month |-> month,
     total_km |-> total_km, trip_count |-> trip_count,
     pdf_file |-> Null, excel_file |-> Null, sent_at |-> Null]

InFlight(r) == pc[r] \notin {"idle", "done"}

\* A committed Trip write is seen by every request still in flight
\* (undisturbed is TRUE for a request that is idle or done).
Disturb == [r \in Reqs |-> ~InFlight(r)]

\* What the two queries of post() return in the store state ts: the count
\* and the sum of the trips of the request's user and period.
PeriodView(ts, q) ==
    <<Cardinality(TripsOf(ts, q.user, q.year, q.month)),
      TotalKm(TripsOf(ts, q.user, q.year, q.month))>>

\* A committed Trip write makes a new store state for every traced request
\* still in flight.
Observe(ts) ==
    [r \in DOMAIN snaps |->
        IF InFlight(r) THEN snaps[r] \cup {PeriodView(ts, req[r])} ELSE snaps[r]]

\* The store state in which a traced request begins.
ObserveBegin(r, q) ==
    [x \in DOMAIN snaps |-> IF x = r THEN {PeriodView(trips, q)} ELSE snaps[x]]

----------------------------------------------------------------------------
\* Strings are sequences of one-character strings.

Whitespace == {" ", "\t", "\n"}

\* str.strip()
RECURSIVE LStrip(_)
LStrip(s) ==
    IF s = <<>> THEN s
    ELSE IF Head(s) \in Whitespace THEN LStrip(Tail(s)) ELSE s

RECURSIVE RStrip(_)
RStrip(s) ==
    IF s = <<>> THEN s
    ELSE IF s[Len(s)] \in Whitespace THEN RStrip(SubSeq(s, 1, Len(s) - 1)) ELSE s

Strip(s) == RStrip(LStrip(s))

\* re.IGNORECASE on the letters the patterns use.  For a str pattern the
\* match is by Unicode case: LATIN SMALL LETTER LONG S (U+017F) matches s,
\* and both LATIN CAPITAL LETTER I WITH DOT ABOVE (U+0130) and LATIN SMALL
\* LETTER DOTLESS I (U+0131) match i.  These three characters are written
\* by their code points.
LowerCase ==
    ("A" :> "a") @@ ("C" :> "c") @@ ("E" :> "e") @@ ("F" :> "f") @@
    ("I" :> "i") @@ ("J" :> "j") @@ ("M" :> "m") @@ ("P" :> "p") @@
    ("R" :> "r") @@ ("S" :> "s") @@ ("T" :> "t") @@ ("V" :> "v") @@
    ("U+017F" :> "s") @@ ("U+0130" :> "i") @@ ("U+0131" :> "i")

Lower(c) == IF c \in DOMAIN LowerCase THEN LowerCase[c] ELSE c

\* re.search(pattern, value, re.IGNORECASE) for a literal pattern.
Search(pattern, value) ==
    \E i \in 1..(Len(value) - Len(pattern) + 1) :
        \A j \in 1..Len(pattern) : Lower(value[i + j - 1]) = pattern[j]

dangerous_patterns ==
    { <<"<", "s", "c", "r", "i", "p", "t">>,
      <<"<", "i", "f", "r", "a", "m", "e">>,
      <<"j", "a", "v", "a", "s", "c", "r", "i", "p", "t", ":">>,
      <<"-", "-", ";">>,
      <<"/", "*">>,
      <<"*", "/">>,
      <<"|", "|">>,
      <<"@", "@">> }

AddressMaxLength == 500

\* Mutant: the minimum length is the one the docstring and the message
\* name, 5 characters.
validate_address_min_five(value) ==
    IF Len(value) < 5 THEN "invalid_address_too_short"
    ELSE IF Len(value) > AddressMaxLength THEN "invalid_address_too_long"
    ELSE IF \E pattern \in dangerous_patterns : Search(pattern, value)
    THEN "invalid_address_dangerous_chars"
    ELSE "ok"

validate_address(value) ==
    IF Len(value) < 1 THEN "invalid_address_too_short"
    ELSE IF Len(value) > AddressMaxLength THEN "invalid_address_too_long"
    ELSE IF \E pattern \in dangerous_patterns : Search(pattern, value)
    THEN "invalid_address_dangerous_chars"
    ELSE "ok"

\* serializers.CharField(max_length=500) with validate_<field>: the value is
\* trimmed, a blank one is refused, then the length and validate_address.
AddressFieldError(value) ==
    LET v == Strip(value)
    IN IF v = <<>> THEN "blank"
       ELSE IF Len(v) > AddressMaxLength THEN "max_length"
       ELSE validate_address(v)

----------------------------------------------------------------------------
\* Distance service (apps/trips/services.py).

\* Decimal(distance_meters) / Decimal(1000), quantized to 0.01 with the
\* context's rounding, ROUND_HALF_EVEN; the result in hundredths of a km.
QuantizeTruncating(meters) == meters \div 10

Quantize(meters) ==
    LET q == meters \div 10
        r == meters % 10
    IN IF r < 5 THEN q
       ELSE IF r > 5 THEN q + 1
       ELSE IF q % 2 = 0 THEN q ELSE q + 1

\* What distance_matrix() does: it raises, or it returns a response.
Raises(answer) == answer.raise # "none"

\* Lines 136-207: the statements of the try block after the call returned.
TryBody(answer) ==
    IF answer.status # "OK" THEN [raised |-> "GoogleMapsAPIError"]
    ELSE IF answer.element # "OK"
    THEN (IF answer.element = "NOT_FOUND"
          THEN [raised |-> "InvalidAddressError"]
          ELSE [raised |-> "GoogleMapsAPIError"])
    ELSE IF ~answer.has_distance THEN [raised |-> "KeyError"]
    ELSE [raised |-> "none",
          distance_km |-> Quantize(answer.meters),
          distance_meters |-> answer.meters,
          duration_seconds |-> answer.seconds,
          start_address |-> answer.origin,
          end_address |-> answer.destination]

\* Mutant: only the provider's own exception classes are translated.
ExceptClausesNoCatchAll(raised) ==
    IF raised \in {"ApiError", "HTTPError", "Timeout"}
    THEN "GoogleMapsAPIError"
    ELSE raised

\* Lines 209-229: except ApiError / HTTPError / Timeout / Exception.  Every
\* exception raised in the try block is an Exception, the service's own
\* InvalidAddressError and GoogleMapsAPIError included.
ExceptClauses(raised) ==
    IF raised \in {"ApiError", "HTTPError", "Timeout"}
    THEN "GoogleMapsAPIError"
    ELSE "GoogleMapsAPIError"

ErrorKind(exception) ==
    IF exception = "InvalidAddressError" THEN "invalid_address"
    ELSE IF exception = "GoogleMapsAPIError" THEN "provider_error"
    ELSE "raw_exception"

Failure(exception, calls) ==
    [kind |-> ErrorKind(exception), raised |-> exception, calls |-> calls]

\* Mutant: a call that timed out is made once more.
calculate_distance_retrying(start_address, end_address, answer) ==
    IF Strip(start_address) = <<>> \/ Strip(end_address) = <<>>
    THEN Failure("InvalidAddressError", 0)
    ELSE IF Raises(answer)
    THEN Failure(ExceptClauses(answer.raise),
                 IF answer.raise = "Timeout" THEN 2 ELSE 1)
    ELSE LET body == TryBody(answer)
         IN IF body.raised # "none"
            THEN Failure(ExceptClauses(body.raised), 1)
            ELSE [kind |-> "success", calls |-> 1, result |-> body]

\* Mutant: the addresses are handed to the provider unchecked.
calculate_distance_unchecked(start_address, end_address, answer) ==
    IF Raises(answer)
    THEN Failure(ExceptClauses(answer.raise), 1)
    ELSE LET body == TryBody(answer)
         IN IF body.raised # "none"
            THEN Failure(ExceptClauses(body.raised), 1)
            ELSE [kind |-> "success", calls |-> 1, result |-> body]

\* GoogleMapsService.calculate_distance: the outcome and the number of
\* outbound calls it made.
calculate_distance(start_address, end_address, answer) ==
    IF Strip(start_address) = <<>> \/ Strip(end_address) = <<>>
    THEN Failure("InvalidAddressError", 0)
    ELSE IF Raises(answer)
    THEN Failure(ExceptClauses(answer.raise), 1)
    ELSE LET body == TryBody(answer)
         IN IF body.raised # "none"
            THEN Failure(ExceptClauses(body.raised), 1)
            ELSE [kind |-> "success", calls |-> 1, result |-> body]

----------------------------------------------------------------------------
\* Inputs.

Today0 == <<2025, 12, 20>>

Periods == {<<2025, 12>>, <<2025, 11>>, <<2025, 13>>}

TripInputs ==
    { [date |-> <<2025, 12, 1>>,  distance_km |-> 30000, is_manual |-> TRUE],
      [date |-> <<2025, 12, 15>>, distance_km |-> 5025,  is_manual |-> FALSE],
      [date |-> <<2026, 1, 5>>,   distance_km |-> 5025,  is_manual |-> TRUE],
      [date |-> <<2025, 12, 1>>,  distance_km |-> 0,     is_manual |-> TRUE] }

TripPatches ==
    { [date |-> <<2025, 11, 30>>],
      [distance_km |-> 0] }

\* The instants at which lookups are made: late in one window of the
\* limiter and early in the next.
Clock0 == 30
Clocks == {30, 60}

\* The keys of the limiter's cache: str(request.user.pk).
LimiterKeys == Users \cup {"None"}

\* Addresses: two places, one of them also with surrounding blanks, and
\* empty and all-blank strings.
Oulu == <<"O", "u", "l", "u">>
Helsinki == <<"H", "e", "l", "s", "i", "n", "k", "i">>
Origins == {Oulu, <<" ">> \o Oulu \o <<" ", "\n">>, <<>>, <<"\n">>}
Destinations == {Helsinki, <<>>, <<" ", "\t">>}

\* What the provider may answer to one distance_matrix() call.
Answer(raise, status, element, has_distance, meters) ==
    [raise |-> raise, status |-> status, element |-> element,
     has_distance |-> has_distance, meters |-> meters, seconds |-> 21600,
     origin |-> "Oulu, Finland", destination |-> "Helsinki, Finland"]

Meters == (0..MaxMeters) \cup {607500}

Answers ==
    {Answer(e, "", "", FALSE, 0) :
        e \in {"ApiError", "HTTPError", "Timeout", "TransportError"}}
    \cup {Answer("none", "REQUEST_DENIED", "", FALSE, 0)}
    \cup {Answer("none", "OK", e, FALSE, 0) :
              e \in {"NOT_FOUND", "ZERO_RESULTS", "MAX_ROUTE_LENGTH_EXCEEDED"}}
    \cup {Answer("none", "OK", "OK", FALSE, 0)}
    \cup {Answer("none", "OK", "OK", TRUE, m) : m \in Meters}

----------------------------------------------------------------------------
\* No summary or distance request has been made; the limiter's cache is empty.
IdleServices ==
    /\ last = NoLast
    /\ summ = NoSumm
    /\ clock = Clock0
    /\ hits = [k \in LimiterKeys |-> [window |-> 0, count |-> 0]]
    /\ admitted = [u \in Users |-> [t \in Clocks |-> 0]]
    /\ providerCalls = 0
    /\ accounts = Users

Init ==
    /\ today = Today0
    /\ trips = {}
    /\ nextTripId = 1
    /\ reports = {}
    /\ nextReportId = 1
    /\ outbox = {}
    /\ pc = [r \in Reqs |-> "idle"]
    /\ req = [r \in Reqs |-> NoReq]
    /\ local = [r \in Reqs |-> NoLocal]
    /\ outcome = [r \in Reqs |-> NoOutcome]
    /\ undisturbed = [r \in Reqs |-> TRUE]
    /\ snaps = << >>
    /\ IdleServices

\* Mutant: the row is saved before the input is validated.
CreateTripSaveFirst(u, data) ==
    /\ nextTripId <= MaxTrips
    /\ trips' = trips \cup {TripRow(nextTripId, u, data)}
    /\ nextTripId' = nextTripId + 1
    /\ undisturbed' = Disturb /\ snaps' = Observe(trips')
    /\ last' = [op |-> "create_trip",
                status |-> IF TripInputValid(data, today) THEN 201 ELSE 400]
    /\ UNCHANGED <<today, reports, nextReportId, outbox, pc, req, local, outcome>>
    /\ UNCHANGED <<summaryVars, distanceVars, accountVars>>

\* TripListCreateView POST -> TripCreateSerializer.create
CreateTrip(u, data) ==
    /\ nextTripId <= MaxTrips
    /\ IF TripInputValid(data, today)
       THEN /\ trips' = trips \cup {TripRow(nextTripId, u, data)}
            /\ nextTripId' = nextTripId + 1
            /\ undisturbed' = Disturb /\ snaps' = Observe(trips')
            /\ last' = [op |-> "create_trip", status |-> 201]
       ELSE /\ last' = [op |-> "create_trip", status |-> 400]
            /\ UNCHANGED <<trips, nextTripId, undisturbed, snaps>>
    /\ UNCHANGED <<today, reports, nextReportId, outbox, pc, req, local, outcome>>
    /\ UNCHANGED <<summaryVars, distanceVars, accountVars>>

\* Mutant: the row is looked up in the whole table and the owner check
\* (IsOwner) refuses it.
UpdateTripForbidden(u, id, data) ==
    /\ IF ~\E t \in trips : t.id = id
       THEN /\ last' = [op |-> "update_trip", status |-> 404]
            /\ UNCHANGED <<trips, undisturbed, snaps>>
       ELSE IF ~\E t \in trips : t.id = id /\ t.user = u
       THEN /\ last' = [op |-> "update_trip", status |-> 403]
            /\ UNCHANGED <<trips, undisturbed, snaps>>
       ELSE IF ~TripInputValid(data, today)
       THEN /\ last' = [op |-> "update_trip", status |-> 400]
            /\ UNCHANGED <<trips, undisturbed, snaps>>
       ELSE LET t == CHOOSE x \in trips : x.id = id
                n == [f \in DOMAIN t |->
                        IF f \in DOMAIN data \cap TripUpdateFields
                        THEN data[f] ELSE t[f]]
            IN /\ trips' = (trips \ {t}) \cup {n}
               /\ undisturbed' = Disturb /\ snaps' = Observe(trips')
               /\ last' = [op |-> "update_trip", status |-> 200]
    /\ UNCHANGED <<today, nextTripId, reports, nextReportId, outbox,
                   pc, req, local, outcome>>
    /\ UNCHANGED <<summaryVars, distanceVars, accountVars>>

\* Mutant: every field of the body is written to the row.
UpdateTripAnyField(u, id, data) ==
    /\ IF ~\E t \in trips : t.id = id /\ t.user = u
       THEN /\ last' = [op |-> "update_trip", status |-> 404]
            /\ UNCHANGED <<trips, undisturbed, snaps>>
       ELSE IF ~TripInputValid(data, today)
       THEN /\ last' = [op |-> "update_trip", status |-> 400]
            /\ UNCHANGED <<trips, undisturbed, snaps>>
       ELSE LET t == CHOOSE x \in trips : x.id = id
                n == [f \in DOMAIN t |->
                        IF f \in DOMAIN data THEN data[f] ELSE t[f]]
            IN /\ trips' = (trips \ {t}) \cup {n}
               /\ undisturbed' = Disturb /\ snaps' = Observe(trips')
               /\ last' = [op |-> "update_trip", status |-> 200]
    /\ UNCHANGED <<today, nextTripId, reports, nextReportId, outbox,
                   pc, req, local, outcome>>
    /\ UNCHANGED <<summaryVars, distanceVars, accountVars>>

\* TripDetailView PUT/PATCH -> TripUpdateSerializer
UpdateTrip(u, id, data) ==
    /\ IF ~\E t \in trips : t.id = id /\ t.user = u
       THEN /\ last' = [op |-> "update_trip", status |-> 404]
            /\ UNCHANGED <<trips, undisturbed, snaps>>
       ELSE IF ~TripInputValid(data, today)
       THEN /\ last' = [op |-> "update_trip", status |-> 400]
            /\ UNCHANGED <<trips, undisturbed, snaps>>
       ELSE LET t == CHOOSE x \in trips : x.id = id
                n == [f \in DOMAIN t |->
                        IF f \in DOMAIN data \cap TripUpdateFields
                        THEN data[f] ELSE t[f]]
            IN /\ trips' = (trips \ {t}) \cup {n}
               /\ undisturbed' = Disturb /\ snaps' = Observe(trips')
               /\ last' = [op |-> "update_trip", status |-> 200]
    /\ UNCHANGED <<today, nextTripId, reports, nextReportId, outbox,
                   pc, req, local, outcome>>
    /\ UNCHANGED <<summaryVars, distanceVars, accountVars>>

\* Mutant: deleting a trip recomputes the totals of the owner's reports.
DeleteTripRecompute(u, id) ==
    /\ IF \E t \in trips : t.id = id /\ t.user = u
       THEN /\ trips' = {t \in trips : t.id # id}
            /\ undisturbed' = Disturb /\ snaps' = Observe(trips')
            /\ reports' =
                 {[x EXCEPT
                     !.trip_count =
                         IF x.user = u
                         THEN Cardinality(TripsOf(trips', x.user, x.year, x.month))
                         ELSE @,
                     !.total_km =
                         IF x.user = u
                         THEN TotalKm(TripsOf(trips', x.user, x.year, x.month))
                         ELSE @] : x \in reports}
            /\ last' = [op |-> "delete_trip", status |-> 204]
       ELSE /\ last' = [op |-> "delete_trip", status |-> 404]
            /\ UNCHANGED <<trips, undisturbed, snaps, reports>>
    /\ UNCHANGED <<today, nextTripId, nextReportId, outbox, pc, req, local, outcome>>
    /\ UNCHANGED <<summaryVars, distanceVars, accountVars>>

\* TripDetailView DELETE
DeleteTrip(u, id) ==
    /\ IF \E t \in trips : t.id = id /\ t.user = u
       THEN /\ trips' = {t \in trips : t.id # id}
            /\ undisturbed' = Disturb /\ snaps' = Observe(trips')
            /\ last' = [op |-> "delete_trip", status |-> 204]
       ELSE /\ last' = [op |-> "delete_trip", status |-> 404]
            /\ UNCHANGED <<trips, undisturbed, snaps>>
    /\ UNCHANGED <<today, nextTripId, reports, nextReportId, outbox,
                   pc, req, local, outcome>>
    /\ UNCHANGED <<summaryVars, distanceVars, accountVars>>

\* return Response(...): the handler's locals are gone, the request and
\* its response stay.
Finish(r, resp) ==
    /\ pc' = [pc EXCEPT ![r] = "done"]
    /\ outcome' = [outcome EXCEPT ![r] = resp]
    /\ local' = [local EXCEPT ![r] = NoLocal]
    /\ undisturbed' = [undisturbed EXCEPT ![r] = TRUE]
    /\ snaps' = [x \in DOMAIN snaps |-> IF x = r THEN {} ELSE snaps[x]]

\* Mutant: an existing report is dropped and generated again.
PostBeginRegenerate(r, u, year, month) ==
    /\ pc[r] = "idle"
    /\ req' = [req EXCEPT ![r] = [user |-> u, year |-> year, month |-> month]]
    /\ IF ~ReportGenerateIsValid(year, month, today)
       THEN /\ Finish(r, [status |-> 400, kind |-> "invalid_period"])
            /\ UNCHANGED reports
       ELSE /\ reports' = reports \ ReportsOf(reports, u, year, month)
            /\ pc' = [pc EXCEPT ![r] = "count"]
            /\ snaps' = ObserveBegin(r, [user |-> u, year |-> year, month |-> month])
            /\ UNCHANGED <<outcome, local, undisturbed>>
    /\ UNCHANGED <<last, summaryVars, distanceVars, accountVars>>
    /\ UNCHANGED <<today, trips, nextTripId, nextReportId, outbox>>

\* Mutant: the trips are looked at before the existing report.
PostBeginTripsFirst(r, u, year, month) ==
    /\ pc[r] = "idle"
    /\ req' = [req EXCEPT ![r] = [user |-> u, year |-> year, month |-> month]]
    /\ IF ~ReportGenerateIsValid(year, month, today)
       THEN Finish(r, [status |-> 400, kind |-> "invalid_period"])
       ELSE IF TripsOf(trips, u, year, month) = {}
       THEN Finish(r, [status |-> 400, kind |-> "insufficient_data"])
       ELSE LET found == ReportsOf(reports, u, year, month)
            IN IF found # {}
               THEN Finish(r, [status |-> 409, kind |-> "report_conflict",
                               report |-> CHOOSE x \in found : TRUE])
               ELSE /\ pc' = [pc EXCEPT ![r] = "count"]
                    /\ snaps' = ObserveBegin(r, [user |-> u, year |-> year, month |-> month])
                    /\ UNCHANGED <<outcome, local, undisturbed>>
    /\ UNCHANGED <<last, summaryVars, distanceVars, accountVars>>
    /\ UNCHANGED <<today, trips, nextTripId, reports, nextReportId, outbox>>

\* post(): serializer.is_valid(), then
\* existing_report = MonthlyReport.objects.filter(...).first()
PostBegin(r, u, year, month) ==
    /\ pc[r] = "idle"
    /\ req' = [req EXCEPT ![r] = [user |-> u, year |-> year, month |-> month]]
    /\ IF ~ReportGenerateIsValid(year, month, today)
       THEN Finish(r, [status |-> 400, kind |-> "invalid_period"])
       ELSE LET found == ReportsOf(reports, u, year, month)
            IN IF found # {}
               THEN Finish(r, [status |-> 409, kind |-> "report_conflict",
                               report |-> CHOOSE x \in found : TRUE])
               ELSE /\ pc' = [pc EXCEPT ![r] = "count"]
                    /\ snaps' = ObserveBegin(r, [user |-> u, year |-> year, month |-> month])
                    /\ UNCHANGED <<outcome, local, undisturbed>>
    /\ UNCHANGED <<last, summaryVars, distanceVars, accountVars>>
    /\ UNCHANGED <<today, trips, nextTripId, reports, nextReportId, outbox>>

\* Mutant: the empty period is not rejected.
PostCountTripsNoGuard(r) ==
    /\ pc[r] = "count"
    /\ pc' = [pc EXCEPT ![r] = "sum"]
    /\ local' = [local EXCEPT ![r].trip_count =
                    Cardinality(TripsOf(trips, req[r].user, req[r].year, req[r].month))]
    /\ UNCHANGED <<last, summaryVars, distanceVars, accountVars>>
    /\ UNCHANGED <<today, trips, nextTripId, reports, nextReportId, outbox,
                   outcome, req, undisturbed, snaps>>

\* post(): trip_count = trips.count()
PostCountTrips(r) ==
    /\ pc[r] = "count"
    /\ LET n == Cardinality(TripsOf(trips, req[r].user, req[r].year, req[r].month))
       IN IF n = 0
          THEN /\ Finish(r, [status |-> 400, kind |-> "insufficient_data"])
               /\ UNCHANGED req
          ELSE /\ pc' = [pc EXCEPT ![r] = "sum"]
               /\ local' = [local EXCEPT ![r].trip_count = n]
               /\ UNCHANGED <<outcome, req, undisturbed, snaps>>
    /\ UNCHANGED <<last, summaryVars, distanceVars, accountVars>>
    /\ UNCHANGED <<today, trips, nextTripId, reports, nextReportId, outbox>>

\* post(): total_km = trips.aggregate(...)
PostSumTrips(r) ==
    /\ pc[r] = "sum"
    /\ pc' = [pc EXCEPT ![r] = "create"]
    /\ local' = [local EXCEPT ![r].total_km =
                    TotalKm(TripsOf(trips, req[r].user, req[r].year, req[r].month))]
    /\ UNCHANGED <<last, summaryVars, distanceVars, accountVars>>
    /\ UNCHANGED <<today, trips, nextTripId, reports, nextReportId, outbox,
                   req, outcome, undisturbed, snaps>>

\* post(): MonthlyReport.objects.create(...) and the 201 response.  An insert
\* the uniqueness constraint rejects raises IntegrityError, which post() does
\* not catch and the exception handler does not map: a 500.
PostCreate(r) ==
    /\ pc[r] = "create"
    /\ IF UniqueViolation(reports, req[r].user, req[r].year, req[r].month)
       THEN /\ Finish(r, [status |-> 500, kind |-> "server_error"])
            /\ UNCHANGED <<reports, nextReportId>>
       ELSE LET row == ReportRow(nextReportId, req[r].user, req[r].year,
                                 req[r].month, local[r].total_km,
                                 local[r].trip_count)
            IN /\ reports' = reports \cup {row}
               /\ nextReportId' = nextReportId + 1
               /\ Finish(r, [status |-> 201, kind |-> "created_unsent",
                             report |-> row])
    /\ UNCHANGED <<last, summaryVars, distanceVars, accountVars>>
    /\ UNCHANGED <<today, trips, nextTripId, outbox, req>>

Next ==
    \/ \E u \in Users, data \in TripInputs : CreateTrip(u, data)
    \/ \E u \in Users, id \in 1..MaxTrips, data \in TripPatches : UpdateTrip(u, id, data)
    \/ \E u \in Users, id \in 1..MaxTrips : DeleteTrip(u, id)
    \/ \E r \in Reqs, u \in Users, p \in Periods : PostBegin(r, u, p[1], p[2])
    \/ \E r \in Reqs : PostCountTrips(r)
    \/ \E r \in Reqs : PostSumTrips(r)
    \/ \E r \in Reqs : PostCreate(r)

Spec == Init /\ [][Next]_vars

----------------------------------------------------------------------------
\* Store states the application reaches: Trip tables built by valid creates,
\* and a report generated earlier for sami's December 2025.

ValidTripInputs == {d \in TripInputs : TripInputValid(d, Today0)}

RECURSIVE TripTables(_)
TripTables(n) ==
    IF n = 0 THEN {{}}
    ELSE {t \cup {TripRow(n, u, d)} :
             t \in TripTables(n - 1), u \in Users, d \in ValidTripInputs}

StoredTrips == UNION {TripTables(n) : n \in 0..MaxTrips}

\* The report of one 300.00 km trip; the trips may have changed since.
EarlierReport == ReportRow(1, "sami", 2025, 12, 30000, 1)

IdleRequests ==
    /\ pc = [r \in Reqs |-> "idle"]
    /\ req = [r \in Reqs |-> NoReq]
    /\ local = [r \in Reqs |-> NoLocal]
    /\ outcome = [r \in Reqs |-> NoOutcome]
    /\ undisturbed = [r \in Reqs |-> TRUE]
    /\ snaps = << >>

\* Generation requests, interleaved in every way, over a store no trip
\* write changes meanwhile.
InitGen ==
    /\ today = Today0
    /\ trips \in StoredTrips
    /\ nextTripId = Cardinality(trips) + 1
    /\ reports \in {{}, {EarlierReport}}
    /\ nextReportId = Cardinality(reports) + 1
    /\ outbox = {}
    /\ IdleRequests
    /\ IdleServices

NextGen ==
    \/ \E r \in Reqs, u \in Users, p \in Periods : PostBegin(r, u, p[1], p[2])
    \/ \E r \in Reqs : PostCountTrips(r)
    \/ \E r \in Reqs : PostSumTrips(r)
    \/ \E r \in Reqs : PostCreate(r)

SpecGen == InitGen /\ [][NextGen]_vars

\* Trip writes after a report was generated: the store right after sami's
\* December 2025 report, then any trip creates, updates and deletes.
InitTrips ==
    /\ today = Today0
    /\ trips \in {t \in StoredTrips : TripsOf(t, "sami", 2025, 12) # {}}
    /\ nextTripId = Cardinality(trips) + 1
    /\ reports = {ReportRow(1, "sami", 2025, 12,
                             TotalKm(TripsOf(trips, "sami", 2025, 12)),
                             Cardinality(TripsOf(trips, "sami", 2025, 12)))}
    /\ nextReportId = 2
    /\ outbox = {}
    /\ IdleRequests
    /\ IdleServices

NextTrips ==
    \/ \E u \in Users, data \in TripInputs : CreateTrip(u, data)
    \/ \E u \in Users, id \in 1..MaxTrips, data \in TripPatches : UpdateTrip(u, id, data)
    \/ \E u \in Users, id \in 1..MaxTrips : DeleteTrip(u, id)

SpecTrips == InitTrips /\ [][NextTrips]_vars

\* Period validation on its own: generation requests over a wide range of
\* years, months and current dates.

Todays == {<<2025, 12, 20>>, <<2026, 1, 1>>, <<2030, 6, 15>>, <<2031, 2, 15>>}
Years == {2019, 2020, 2025, 2026, 2027, 2030, 2031, 2032, 2033}
Months == {0, 1, 2, 6, 12, 13}

InitYM ==
    /\ today \in Todays
    /\ trips = {}
    /\ nextTripId = 1
    /\ reports = {}
    /\ nextReportId = 1
    /\ outbox = {}
    /\ IdleRequests
    /\ IdleServices

NextYM == \E r \in Reqs, year \in Years, month \in Months :
              PostBegin(r, "sami", year, month)

SpecYM == InitYM /\ [][NextYM]_vars

\* Monthly summary (MonthlySummaryView.get): one step per store access.

\* Mutant: the guard of the sum is off by one.
SummaryTotalOffByOne(ts, trip_count) == IF trip_count > 1 THEN SumKm(ts) ELSE 0

\* sum(trip.distance_km for trip in trips) if trip_count > 0 else Decimal("0.00")
SummaryTotal(ts, trip_count) == IF trip_count > 0 THEN SumKm(ts) ELSE 0

SummaryFrame ==
    UNCHANGED <<today, trips, nextTripId, reports, nextReportId, outbox,
                pc, req, local, outcome, undisturbed, snaps, last, distanceVars,
                accountVars>>

\* get(): the month check, then trip_count = trips.count()
SummaryBegin(u, year, month) ==
    /\ summ.pc = "idle"
    /\ IF ~(1 <= month /\ month <= 12)
       THEN summ' = [summ EXCEPT !.pc = "done", !.user = u, !.year = year,
                                 !.month = month, !.status = 400]
       ELSE summ' = [summ EXCEPT !.pc = "sum", !.user = u, !.year = year,
                                 !.month = month,
                                 !.trip_count = Cardinality(TripsOf(trips, u, year, month))]
    /\ SummaryFrame

\* get(): total_km; the queryset is fetched for it only when trip_count > 0
SummarySum ==
    /\ summ.pc = "sum"
    /\ LET rows == TripsOf(trips, summ.user, summ.year, summ.month)
       IN summ' = [summ EXCEPT
                     !.pc = "manual",
                     !.total_km = SummaryTotal(rows, summ.trip_count),
                     !.fetched = summ.trip_count > 0,
                     !.trips = IF summ.trip_count > 0 THEN rows ELSE {}]
    /\ SummaryFrame

\* get(): manual_count = trips.filter(is_manual=True).count()
SummaryManual ==
    /\ summ.pc = "manual"
    /\ summ' = [summ EXCEPT
                  !.pc = "automatic",
                  !.manual_count =
                      Cardinality({t \in TripsOf(trips, summ.user, summ.year, summ.month) :
                                      t.is_manual})]
    /\ SummaryFrame

\* get(): automatic_count = trips.filter(is_manual=False).count()
SummaryAutomatic ==
    /\ summ.pc = "automatic"
    /\ summ' = [summ EXCEPT
                  !.pc = "respond",
                  !.automatic_count =
                      Cardinality({t \in TripsOf(trips, summ.user, summ.year, summ.month) :
                                      ~t.is_manual})]
    /\ SummaryFrame

\* get(): TripListSerializer(trips, many=True).data, which fetches the
\* queryset unless the sum already did, and the 200 response.
SummaryRespond ==
    /\ summ.pc = "respond"
    /\ summ' = [summ EXCEPT
                  !.pc = "done",
                  !.status = 200,
                  !.fetched = TRUE,
                  !.trips = IF summ.fetched THEN summ.trips
                            ELSE TripsOf(trips, summ.user, summ.year, summ.month)]
    /\ SummaryFrame

SummaryPeriods == {<<2025, 12>>, <<2025, 11>>, <<2025, 13>>, <<2025, 0>>}

\* Summary requests over a store no trip write changes meanwhile.
InitSum ==
    /\ today = Today0
    /\ trips \in StoredTrips
    /\ nextTripId = Cardinality(trips) + 1
    /\ reports = {}
    /\ nextReportId = 1
    /\ outbox = {}
    /\ IdleRequests
    /\ IdleServices

NextSum ==
    \/ \E u \in Users, p \in SummaryPeriods : SummaryBegin(u, p[1], p[2])
    \/ SummarySum
    \/ SummaryManual
    \/ SummaryAutomatic
    \/ SummaryRespond

SpecSum == InitSum /\ [][NextSum]_vars

\* An empty store; no lookup has been made.
InitDist ==
    /\ today = Today0
    /\ trips = {}
    /\ nextTripId = 1
    /\ reports = {}
    /\ nextReportId = 1
    /\ outbox = {}
    /\ IdleRequests
    /\ IdleServices

\* ratelimit(key="user", rate="30/m", method="POST") on dispatch.
RateLimit == 30
RatePeriod == 60

\* The fixed window of the limiter an instant falls in.
Window(t) == t \div RatePeriod

\* key="user" is str(request.user.pk) of the request that enters dispatch():
\* the user of the session middleware.  The API authenticates with
\* JWTAuthentication inside the view, after the decorator ran, so a client
\* without a session is AnonymousUser there, whose pk is None.
LimiterKey(u, session) == IF session = "anonymous" THEN "None" ELSE session

\* The count of the key in the window of now, a new window starting at 0.
Count(k) == IF hits[k].window = Window(clock) THEN hits[k].count ELSE 0

\* CalculateDistanceView.post once the limiter let the request through.
DistanceResponse(start_address, end_address, configured, answer) ==
    IF AddressFieldError(start_address) # "ok" \/ AddressFieldError(end_address) # "ok"
    THEN [status |-> 400, kind |-> "validation_error", calls |-> 0, invoked |-> FALSE]
    ELSE IF ~configured
    THEN [status |-> 503, kind |-> "provider_error", calls |-> 0, invoked |-> FALSE]
    ELSE LET out == calculate_distance(Strip(start_address), Strip(end_address), answer)
         IN [status |-> IF out.kind = "success" THEN 200
                        ELSE IF out.kind = "invalid_address" THEN 400
                        ELSE IF out.kind = "provider_error" THEN 503
                        ELSE 500,
             kind |-> out.kind, calls |-> out.calls, invoked |-> TRUE, out |-> out]

\* POST /api/trips/calculate-distance/ by user u: the limiter counts the
\* request and refuses it (Ratelimited, 403) over the limit; else the view.
CalculateDistancePost(u, session, start_address, end_address, configured, answer) ==
    LET k == LimiterKey(u, session)
        n == Count(k) + 1
    IN /\ Count(k) <= RateLimit
       /\ hits' = [hits EXCEPT ![k] = [window |-> Window(clock), count |-> n]]
       /\ IF n > RateLimit
          THEN /\ last' = [op |-> "calculate_distance_post", user |-> u,
                           status |-> 403, kind |-> "ratelimited"]
               /\ UNCHANGED <<admitted, providerCalls>>
          ELSE \E resp \in {DistanceResponse(start_address, end_address,
                                              configured, answer)} :
                  /\ last' = [op |-> "calculate_distance_post", user |-> u,
                              status |-> resp.status, kind |-> resp.kind]
                  /\ admitted' = [admitted EXCEPT ![u][clock] =
                                     IF resp.invoked THEN @ + 1 ELSE @]
                  /\ providerCalls' = providerCalls + resp.calls
       /\ UNCHANGED <<today, trips, nextTripId, reports, nextReportId, outbox,
                      pc, req, local, outcome, undisturbed, snaps, summ, clock,
                      accountVars>>

\* Time passes.
Tick(t) ==
    /\ t \in Clocks
    /\ t > clock
    /\ clock' = t
    /\ UNCHANGED <<today, trips, nextTripId, reports, nextReportId, outbox,
                   pc, req, local, outcome, undisturbed, snaps, last, summ, hits,
                   admitted, providerCalls, accountVars>>

OkAnswer == Answer("none", "OK", "OK", TRUE, 607500)

\* Lookups of one route by clients that carry a JWT and no session.
NextRate ==
    \/ \E u \in Users :
          CalculateDistancePost(u, "anonymous", Oulu, Helsinki, TRUE, OkAnswer)
    \/ \E t \in Clocks : Tick(t)

SpecRate == InitDist /\ [][NextRate]_vars

\* Every kind of request of one user, one after the other: trip writes, a
\* generation request and a few distance lookups, valid and invalid ones
\* alike, on a store that may hold a report generated earlier.
LookupInputs ==
    { <<Oulu, Helsinki, OkAnswer>>,
      <<Oulu, <<" ", "\t">>, OkAnswer>>,
      <<<<"<", "S", "c", "r", "i", "p", "t", ">">>, Helsinki, OkAnswer>>,
      <<Oulu, Helsinki, Answer("none", "OK", "NOT_FOUND", FALSE, 0)>>,
      <<Oulu, Helsinki, Answer("Timeout", "", "", FALSE, 0)>> }

NoneInFlight == \A r \in Reqs : ~InFlight(r)

InitRej ==
    /\ today = Today0
    /\ trips = {}
    /\ nextTripId = 1
    /\ reports \in {{}, {EarlierReport}}
    /\ nextReportId = Cardinality(reports) + 1
    /\ outbox = {}
    /\ IdleRequests
    /\ IdleServices

NextRej ==
    \/ NoneInFlight /\ \E data \in TripInputs : CreateTrip("sami", data)
    \/ NoneInFlight /\ \E id \in 1..MaxTrips, data \in TripPatches :
                          UpdateTrip("sami", id, data)
    \/ NoneInFlight /\ \E id \in 1..MaxTrips : DeleteTrip("sami", id)
    \/ \E p \in Periods : PostBegin(1, "sami", p[1], p[2])
    \/ PostCountTrips(1)
    \/ PostSumTrips(1)
    \/ PostCreate(1)
    \/ /\ NoneInFlight
       /\ Count("None") < MaxCalls
       /\ \E i \in LookupInputs :
             CalculateDistancePost("sami", "anonymous", i[1], i[2], TRUE, i[3])

SpecRej == InitRej /\ [][NextRej]_vars

\* Read endpoints: each is one query scoped by request.user.

\* Trip.objects.filter(user=self.request.user)
TripListOf(ts, u) == {t \in ts : t.user = u}

\* get_object() on that queryset: a row of another user is not in it.
TripDetailOf(ts, u, id) ==
    IF \E t \in TripListOf(ts, u) : t.id = id
    THEN [status |-> 200, trip |-> CHOOSE t \in TripListOf(ts, u) : t.id = id]
    ELSE [status |-> 404]

\* MonthlyReport.objects.filter(user=self.request.user)
ReportListOf(rs, u) == {x \in rs : x.user = u}

ReportDetailOf(rs, u, id) ==
    IF \E x \in ReportListOf(rs, u) : x.id = id
    THEN [status |-> 200, report |-> CHOOSE x \in ReportListOf(rs, u) : x.id = id]
    ELSE [status |-> 404]

\* MonthlySummaryView.get on a store that does not change meanwhile.
SummaryOf(ts, u, year, month) ==
    IF ~(1 <= month /\ month <= 12) THEN [status |-> 400]
    ELSE LET rows == TripsOf(ts, u, year, month)
         IN [status |-> 200, year |-> year, month |-> month,
             trip_count |-> Cardinality(rows),
             total_km |-> SummaryTotal(rows, Cardinality(rows)),
             manual_count |-> Cardinality({t \in rows : t.is_manual}),
             automatic_count |-> Cardinality({t \in rows : ~t.is_manual}),
             trips |-> rows]

\* GenerateReportView.post on a store that does not change meanwhile.
GenerationOf(ts, rs, nextId, u, year, month, now) ==
    IF ~ReportGenerateIsValid(year, month, now)
    THEN [status |-> 400, kind |-> "invalid_period"]
    ELSE IF ReportsOf(rs, u, year, month) # {}
    THEN [status |-> 409, kind |-> "report_conflict",
          report |-> CHOOSE x \in ReportsOf(rs, u, year, month) : TRUE]
    ELSE IF TripsOf(ts, u, year, month) = {}
    THEN [status |-> 400, kind |-> "insufficient_data"]
    ELSE [status |-> 201, kind |-> "created_unsent",
          report |-> ReportRow(nextId, u, year, month,
                               TotalKm(TripsOf(ts, u, year, month)),
                               Cardinality(TripsOf(ts, u, year, month)))]

ReadFrame ==
    UNCHANGED <<today, trips, nextTripId, reports, nextReportId, outbox,
                pc, req, local, outcome, undisturbed, snaps, summaryVars, distanceVars, accountVars>>

\* GET /api/trips/
TripListGet(u) ==
    /\ last' = [op |-> "list_trips", user |-> u, status |-> 200,
                body |-> TripListOf(trips, u)]
    /\ ReadFrame

\* GET /api/trips/<id>/
TripDetailGet(u, id) ==
    /\ last' = [op |-> "get_trip", user |-> u, id |-> id,
                status |-> TripDetailOf(trips, u, id).status,
                body |-> TripDetailOf(trips, u, id)]
    /\ ReadFrame

\* GET /api/reports/
ReportListGet(u) ==
    /\ last' = [op |-> "list_reports", user |-> u, status |-> 200,
                body |-> ReportListOf(reports, u)]
    /\ ReadFrame

\* GET /api/reports/<id>/
ReportDetailGet(u, id) ==
    /\ last' = [op |-> "get_report", user |-> u, id |-> id,
                status |-> ReportDetailOf(reports, u, id).status,
                body |-> ReportDetailOf(reports, u, id)]
    /\ ReadFrame

\* A report of the other user for the period the requests ask for.
OthersReport == ReportRow(1, "anna", 2025, 12, 30000, 1)

InitIso ==
    /\ today = Today0
    /\ trips = {}
    /\ nextTripId = 1
    /\ reports \in {{}, {OthersReport}}
    /\ nextReportId = Cardinality(reports) + 1
    /\ outbox = {}
    /\ IdleRequests
    /\ IdleServices

\* Two users on one store: trip writes and a generation request of either,
\* one request after the other, and the reads of one of them.
NextIso ==
    \/ NoneInFlight /\ \E u \in Users, data \in ValidTripInputs : CreateTrip(u, data)
    \/ NoneInFlight /\ \E u \in Users, id \in 1..MaxTrips : DeleteTrip(u, id)
    \/ \E u \in Users, p \in Periods : PostBegin(1, u, p[1], p[2])
    \/ PostCountTrips(1)
    \/ PostSumTrips(1)
    \/ PostCreate(1)
    \/ NoneInFlight /\ TripListGet("sami")
    \/ NoneInFlight /\ \E id \in 1..MaxTrips : TripDetailGet("sami", id)
    \/ NoneInFlight /\ ReportListGet("sami")
    \/ NoneInFlight /\ \E id \in 1..MaxReqs : ReportDetailGet("sami", id)

SpecIso == InitIso /\ [][NextIso]_vars

\* Requests of either user addressed to ids of own rows, of rows of the
\* other user and of no row, over a stored table.
NoId == 0
TripIds == 0..MaxTrips
ReportIds == 0..MaxReqs

NextOwn ==
    \/ \E u \in Users, id \in TripIds, data \in TripPatches : UpdateTrip(u, id, data)
    \/ \E u \in Users, id \in TripIds : DeleteTrip(u, id)
    \/ \E u \in Users, id \in TripIds : TripDetailGet(u, id)
    \/ \E u \in Users, id \in ReportIds : ReportDetailGet(u, id)

SpecOwn == InitGen /\ [][NextOwn]_vars

\* Trip writes over the limits of the fields, on days that pass.

\* date + timedelta(days=1)
Tomorrow(d) ==
    IF d[3] < DaysInMonth(d[1], d[2]) THEN <<d[1], d[2], d[3] + 1>>
    ELSE IF d[2] < 12 THEN <<d[1], d[2] + 1, 1>>
    ELSE <<d[1] + 1, 1, 1>>

\* Distances around 0, 0.01, 9999.99 and 10000, in hundredths.
Distances == {-1, 0, 1, 2, 999998, 999999, 1000000, 1000001}

\* Dates around today - 730 days and around the days of the behaviour.
TripDates == {<<2023, 12, 20>>, <<2023, 12, 21>>, <<2025, 12, 20>>,
              <<2025, 12, 21>>, <<2025, 12, 22>>, <<2025, 12, 23>>}

FieldInputs ==
    [date : TripDates, distance_km : Distances, is_manual : {TRUE}]

FieldPatches == [date : TripDates] \cup [distance_km : Distances]

\* Midnight passes: date.today() moves on.
NextDay ==
    /\ ToOrdinal(today) - ToOrdinal(Today0) < MaxDays
    /\ today' = Tomorrow(today)
    /\ UNCHANGED <<trips, nextTripId, reports, nextReportId, outbox,
                   pc, req, local, outcome, undisturbed, snaps, last>>
    /\ UNCHANGED <<summaryVars, distanceVars, accountVars>>

NextFields ==
    \/ \E data \in FieldInputs : CreateTrip("sami", data)
    \/ \E id \in 1..MaxTrips, data \in FieldPatches : UpdateTrip("sami", id, data)
    \/ NextDay

SpecFields == Init /\ [][NextFields]_vars

\* Trip writes whose bodies also carry fields the serializers do not
\* declare.
ForeignFields ==
    { [user |-> "anna"], [user |-> "sami", is_manual |-> FALSE],
      [is_manual |-> TRUE, route_data |-> "rows"],
      [user |-> "anna", is_manual |-> FALSE, route_data |-> "rows"] }

BodyPatches ==
    ForeignFields \cup {[date |-> <<2025, 11, 29>>] @@ x : x \in ForeignFields}

CreateBodies ==
    {d @@ x : d \in ValidTripInputs, x \in {[user |-> "anna"], [route_data |-> "rows"]}}

NextFrame ==
    \/ \E u \in Users, data \in CreateBodies : CreateTrip(u, data)
    \/ \E u \in Users, id \in 1..MaxTrips, data \in BodyPatches : UpdateTrip(u, id, data)

SpecFrame == Init /\ [][NextFrame]_vars

\* Accounts (apps/users/views.py).

\* UserProfileView PUT/PATCH: the profile columns of the user's own row.
UpdateProfile(u) ==
    /\ last' = [op |-> "update_profile", user |-> u, status |-> 200]
    /\ UNCHANGED <<today, trips, nextTripId, reports, nextReportId, outbox,
                   pc, req, local, outcome, undisturbed, snaps>>
    /\ UNCHANGED <<summaryVars, distanceVars, accountVars>>

\* UserDetailView DELETE /api/users/<id>/ (queryset User.objects.all(),
\* IsSelfOrAdmin): deleting one's own row cascades to the rows whose user
\* ForeignKey is on_delete=CASCADE, the user's trips and reports.
DeleteUser(u, target) ==
    /\ IF target \notin accounts
       THEN /\ last' = [op |-> "delete_user", user |-> u, status |-> 404]
            /\ UNCHANGED <<accounts, trips, reports, undisturbed, snaps>>
       ELSE IF target # u
       THEN /\ last' = [op |-> "delete_user", user |-> u, status |-> 403]
            /\ UNCHANGED <<accounts, trips, reports, undisturbed, snaps>>
       ELSE /\ accounts' = accounts \ {u}
            /\ trips' = {t \in trips : t.user # u}
            /\ reports' = {x \in reports : x.user # u}
            /\ undisturbed' = Disturb /\ snaps' = Observe(trips')
            /\ last' = [op |-> "delete_user", user |-> u, status |-> 204]
    /\ UNCHANGED <<today, nextTripId, nextReportId, outbox, pc, req, local, outcome>>
    /\ UNCHANGED <<summaryVars, distanceVars>>

\* What the users do after a report was generated: requests are made by
\* users whose account exists, one after the other.
NextAccounts ==
    \/ NoneInFlight /\ \E u \in accounts, id \in 1..MaxTrips : DeleteTrip(u, id)
    \/ NoneInFlight /\ \E u \in accounts, p \in Periods : PostBegin(1, u, p[1], p[2])
    \/ PostCountTrips(1)
    \/ PostSumTrips(1)
    \/ PostCreate(1)
    \/ NoneInFlight /\ \E u \in accounts : UpdateProfile(u)
    \/ NoneInFlight /\ \E u \in accounts, target \in Users : DeleteUser(u, target)

SpecAccounts == InitTrips /\ [][NextAccounts]_vars

\* The validators on their own, applied to values around their limits.

\* Distances in hundredths: around 0, around 100.00 and 10000.00, and
\* the multiples of 100.00 up to 10100.00.
DistanceValues ==
    (-3..3) \cup (9998..10002) \cup (999998..1000002)
        \cup {10000 * k : k \in 1..101}

ValidatorFrame ==
    UNCHANGED <<today, trips, nextTripId, reports, nextReportId, outbox,
                pc, req, local, outcome, undisturbed, snaps, summaryVars, distanceVars,
                accountVars>>

ValidateDistance(value) ==
    /\ last' = [op |-> "validate_distance", status |-> 0, value |-> value,
                result |-> validate_distance(value),
                warnings |-> validate_distance_warnings(value)]
    /\ ValidatorFrame

NextDistances == \E value \in DistanceValues : ValidateDistance(value)

SpecDistances == Init /\ [][NextDistances]_vars

\* Addresses around the rules of validate_address.

\* The ways of writing one character of a pattern.
Cases(c) == {c} \cup {x \in DOMAIN LowerCase : LowerCase[x] = c}

\* n times the character c.
Repeat(c, n) == [i \in 1..n |-> c]

\* Each pattern with one character written in another case, with one
\* character left out, with a blank inside, inside a longer text and on
\* its own.
PatternAddresses ==
    UNION {
        UNION {{[p EXCEPT ![i] = x] : x \in Cases(p[i])} : i \in 1..Len(p)}
        \cup {SubSeq(p, 1, i - 1) \o SubSeq(p, i + 1, Len(p)) : i \in 1..Len(p)}
        \cup {SubSeq(p, 1, i) \o <<" ">> \o SubSeq(p, i + 1, Len(p)) :
                 i \in 1..(Len(p) - 1)}
        \cup {Oulu \o <<" ">> \o p \o Helsinki}
        : p \in dangerous_patterns }

\* Lengths 0, 1, 4, 5, 499, 500 and 501, and a pattern at the end of a text
\* of 500 and of 501 characters.
LengthAddresses ==
    { <<>>, <<" ">>, <<"a">>, Oulu, Oulu \o <<"n">> \o Oulu,
      Repeat("a", AddressMaxLength - 1), Repeat("a", AddressMaxLength),
      Repeat("a", AddressMaxLength + 1),
      Repeat("a", AddressMaxLength - 2) \o <<"|", "|">>,
      Repeat("a", AddressMaxLength - 1) \o <<"|", "|">> }

Addresses == PatternAddresses \cup LengthAddresses

ValidateAddress(value) ==
    /\ last' = [op |-> "validate_address", status |-> 0, value |-> value,
                result |-> validate_address(value)]
    /\ ValidatorFrame

NextAddresses == \E value \in Addresses : ValidateAddress(value)

SpecAddresses == Init /\ [][NextAddresses]_vars

\* Trip dates around today and around 730 days before it.

\* The days of the calendar from 2020 to 2028.
CalendarDays ==
    {x \in (2020..2028) \X (1..12) \X (1..31) : x[3] <= DaysInMonth(x[1], x[2])}

\* date.fromordinal(n)
FromOrdinal(n) == CHOOSE x \in CalendarDays : ToOrdinal(x) = n

\* date + timedelta(days=k): date.fromordinal(date.toordinal() + k)
Shift(d, k) == FromOrdinal(ToOrdinal(d) + k)

\* Days on which the validator runs: before, in and after a leap year, at
\* the end of February and at the turn of the year.
DateTodays == {<<2025, 12, 20>>, <<2026, 1, 1>>, <<2024, 2, 29>>,
               <<2026, 2, 28>>, <<2026, 3, 1>>, <<2024, 12, 31>>}

DateOffsets ==
    (-733..-727) \cup {-1100, -366, -365, -364, -31, -2, -1, 0, 1, 2, 31, 365, 366}

InitDates ==
    /\ today \in DateTodays
    /\ trips = {}
    /\ nextTripId = 1
    /\ reports = {}
    /\ nextReportId = 1
    /\ outbox = {}
    /\ IdleRequests
    /\ IdleServices

ValidateTripDate(value) ==
    /\ last' = [op |-> "validate_trip_date", status |-> 0, value |-> value,
                result |-> validate_trip_date(value, today)]
    /\ ValidatorFrame

NextDates == \E k \in DateOffsets : ValidateTripDate(Shift(today, k))

SpecDates == InitDates /\ [][NextDates]_vars

\* validate_year_month on its own: every (year, month) on every day.
PeriodYears == {-1, 0, 2019, 2020, 2024, 2025, 2026, 2027, 2028, 2030, 2031, 2032, 2033}
PeriodMonths == {-1, 0, 1, 2, 6, 11, 12, 13, 14}

ValidateYearMonth(year, month) ==
    /\ last' = [op |-> "validate_year_month", status |-> 0,
                year |-> year, month |-> month,
                result |-> validate_year_month(year, month, today)]
    /\ ValidatorFrame

NextPeriods == \E year \in PeriodYears, month \in PeriodMonths :
                   ValidateYearMonth(year, month)

SpecPeriods == InitYM /\ [][NextPeriods]_vars

\* One generation request of sami, traced, while sami's trip writes
\* commit between its queries.
SnapInputs == {[date |-> <<2025, 12, 5>>, distance_km |-> 30000, is_manual |-> TRUE],
               [date |-> <<2025, 12, 6>>, distance_km |-> 5025, is_manual |-> TRUE]}
SnapPatches == {[distance_km |-> 5025], [date |-> <<2025, 11, 29>>]}

InitSnap ==
    /\ today = Today0
    /\ trips = {}
    /\ nextTripId = 1
    /\ reports = {}
    /\ nextReportId = 1
    /\ outbox = {}
    /\ pc = [r \in Reqs |-> "idle"]
    /\ req = [r \in Reqs |-> NoReq]
    /\ local = [r \in Reqs |-> NoLocal]
    /\ outcome = [r \in Reqs |-> NoOutcome]
    /\ undisturbed = [r \in Reqs |-> TRUE]
    /\ snaps = [r \in {1} |-> {}]
    /\ IdleServices

NextSnap ==
    \/ \E data \in SnapInputs : CreateTrip("sami", data)
    \/ \E id \in 1..MaxTrips, data \in SnapPatches : UpdateTrip("sami", id, data)
    \/ \E id \in 1..MaxTrips : DeleteTrip("sami", id)
    \/ PostBegin(1, "sami", 2025, 12)
    \/ PostCountTrips(1)
    \/ PostSumTrips(1)
    \/ PostCreate(1)

SpecSnap == InitSnap /\ [][NextSnap]_vars

\* The trip table of the PDF report (PDFReportGenerator._create_trip_table).

DigitChars == <<"0", "1", "2", "3", "4", "5", "6", "7", "8", "9">>

\* str(n) for n >= 0
RECURSIVE Decimal(_)
Decimal(n) ==
    IF n < 10 THEN <<DigitChars[n + 1]>>
    ELSE Decimal(n \div 10) \o <<DigitChars[(n % 10) + 1]>>

\* n written with at least w digits, zero-padded (%Y, %m, %d, .2f)
ZeroPad(n, w) ==
    LET d == Decimal(n)
    IN IF Len(d) >= w THEN d ELSE Repeat("0", w - Len(d)) \o d

\* trip.date.strftime("%Y-%m-%d")
DateCell(d) == ZeroPad(d[1], 4) \o <<"-">> \o ZeroPad(d[2], 2) \o <<"-">> \o ZeroPad(d[3], 2)

\* f"{trip.distance_km:.2f}" of a Decimal with two places
DistanceCell(v) == Decimal(v \div 100) \o <<".">> \o ZeroPad(v % 100, 2)

\* Mutant: an address of exactly 30 characters is cut as well.
AddressCellCutAtThirty(address) ==
    IF Len(address) >= 30 THEN SubSeq(address, 1, 30) \o <<".", ".", ".">>
    ELSE address

\* trip.start_address[:30] + "..." if len(trip.start_address) > 30
\* else trip.start_address
AddressCell(address) ==
    IF Len(address) > 30 THEN SubSeq(address, 1, 30) \o <<".", ".", ".">>
    ELSE address

\* A purpose of None: no text, told apart from every sequence of
\* characters.
NoPurpose == <<Null>>

\* trip.purpose[:25] + "..." if trip.purpose and len(trip.purpose) > 25
\* else (trip.purpose or "-")
PurposeCell(purpose) ==
    IF purpose # NoPurpose /\ purpose # << >> /\ Len(purpose) > 25
    THEN SubSeq(purpose, 1, 25) \o <<".", ".", ".">>
    ELSE IF purpose = NoPurpose \/ purpose = << >> THEN <<"-">>
    ELSE purpose

TableHeader ==
    << <<"D", "a", "t", "e">>, <<"F", "r", "o", "m">>, <<"T", "o">>,
       <<"D", "i", "s", "t", "a", "n", "c", "e", " ", "(", "k", "m", ")">>,
       <<"P", "u", "r", "p", "o", "s", "e">> >>

\* data = [header] and then one data.append([...]) per trip of the sequence
create_trip_table(ts) ==
    <<TableHeader>> \o
    [i \in 1..Len(ts) |->
        <<DateCell(ts[i].date), AddressCell(ts[i].start_address),
          AddressCell(ts[i].end_address), DistanceCell(ts[i].distance_km),
          PurposeCell(ts[i].purpose)>>]

\* Different characters, and texts cut out of them.
Letters ==
    <<"a", "b", "c", "d", "e", "f", "g", "h", "i", "j", "k", "l", "m", "n",
      "o", "p", "q", "r", "s", "t", "u", "v", "w", "x", "y", "z", " ", ",",
      "A", "B", "C", "D", "E", "F", "G", "H", "I", "J", "K", "L", "M", "N">>

Text(from, n) == SubSeq(Letters, from, from + n - 1)

\* A trip with a start address of s and an end address of e characters.
TableTrip(s, e, purpose) ==
    [date |-> <<2025, 12, (s % 28) + 1>>, start_address |-> Text(1, s),
     end_address |-> Text(2, e), distance_km |-> 100 * e + 5, purpose |-> purpose]

\* Trips with addresses of 1 to 40 characters, 29, 30 and 31 among them,
\* and with no purpose, an empty one and one of 1, 24, 25, 26 and 38
\* characters.
TableTrips ==
    {TableTrip(1, 40, NoPurpose), TableTrip(29, 31, << >>),
     TableTrip(30, 30, Text(3, 1)), TableTrip(31, 29, Text(3, 24)),
     TableTrip(40, 1, Text(3, 25)), TableTrip(30, 31, Text(3, 26)),
     TableTrip(31, 30, Text(3, 38)), TableTrip(11, 12, NoPurpose),
     TableTrip(40, 40, Text(3, 26)), TableTrip(30, 29, << >>)}

RECURSIVE TripSequences(_)
TripSequences(n) ==
    IF n = 0 THEN {<< >>}
    ELSE LET shorter == TripSequences(n - 1)
         IN shorter \cup {Append(ts, t) : ts \in shorter, t \in TableTrips}

CreateTripTable(ts) ==
    /\ last' = [op |-> "create_trip_table", status |-> 0, trips |-> ts,
                data |-> create_trip_table(ts)]
    /\ ValidatorFrame

\* The trip sequences handed to the renderer.
TableInputs == TripSequences(MaxTrips)

NextTables == \E ts \in TableInputs : CreateTripTable(ts)

SpecTables == Init /\ [][NextTables]_vars

\* The distance service on its own: calculate_distance applied to every
\* pair of addresses and every answer of the provider.
Invoke(start_address, end_address, answer) ==
    /\ providerCalls < MaxCalls
    /\ LET out == calculate_distance(start_address, end_address, answer)
       IN /\ last' = [op |-> "calculate_distance", status |-> 0,
                      start_address |-> start_address,
                      end_address |-> end_address,
                      answer |-> answer, out |-> out]
          /\ providerCalls' = providerCalls + out.calls
    /\ UNCHANGED <<today, trips, nextTripId, reports, nextReportId, outbox,
                   pc, req, local, outcome, undisturbed, snaps>>
    /\ UNCHANGED <<summ, clock, hits, admitted, accountVars>>

NextDist == \E a \in Origins, b \in Destinations, answer \in Answers : Invoke(a, b, answer)

SpecDist == InitDist /\ [][NextDist]_vars

----------------------------------------------------------------------------
\* Claims.

SameKey(a, b) == a.user = b.user /\ a.year = b.year /\ a.month = b.month

\* The rows of rs for the period of request r.
Existing(rs, r) ==
    {x \in rs : x.user = req[r].user /\ x.year = req[r].year /\ x.month = req[r].month}

\* C1: in every reachable state there is at most one MonthlyReport for each
\* (owner, year, month), whatever the interleaving of generation requests.
C1_OnePerPeriod ==
    \A a \in reports : \A b \in reports : SameKey(a, b) => a = b

\* Two requests for one period both passed the existence check; one inserted
\* the row and the insert of the other was rejected.
C1_Witness ==
    \E r1 \in Reqs : \E r2 \in Reqs :
        /\ r1 # r2
        /\ pc[r1] = "done" /\ pc[r2] = "done"
        /\ SameKey(req[r1], req[r2])
        /\ outcome[r1].status = 201
        /\ outcome[r2].status = 500
        /\ Cardinality(Existing(reports, r1)) = 1

\* C2: a request whose insert is rejected by the uniqueness constraint ends
\* like the pre-check conflict path: 409 report_conflict carrying the
\* existing report.
C2_LoserGetsConflict ==
    [][\A r \in Reqs :
          (pc[r] = "create" /\ pc'[r] = "done" /\ Existing(reports, r) # {})
          => /\ outcome'[r].status = 409
             /\ outcome'[r].kind = "report_conflict"
             /\ outcome'[r].report \in Existing(reports, r)]_vars

\* C3: a generation request for a period that already has a report (the
\* second of two requests in sequence) is answered with a conflict carrying
\* that report, leaves every stored report as it was, and exactly one report
\* for the period is persisted.
C3_SecondRequestConflicts ==
    [][\A r \in Reqs :
          (pc[r] = "idle" /\ pc'[r] # "idle"
              /\ \E x \in reports : SameKey(x, req'[r]))
          => /\ pc'[r] = "done"
             /\ outcome'[r].kind = "report_conflict"
             /\ outcome'[r].report \in reports
             /\ SameKey(outcome'[r].report, req'[r])
             /\ reports' = reports
             /\ Cardinality({x \in reports' : SameKey(x, req'[r])}) = 1]_vars

\* The first request created the report, the second one for the same period
\* got the conflict with that very report.
C3_Witness ==
    \E r1 \in Reqs : \E r2 \in Reqs :
        /\ r1 # r2
        /\ pc[r1] = "done" /\ outcome[r1].status = 201
        /\ pc[r2] = "done" /\ outcome[r2].status = 409
        /\ SameKey(req[r1], req[r2])
        /\ outcome[r2].report = outcome[r1].report
        /\ outcome[r1].report \in reports
        /\ Cardinality(Existing(reports, r1)) = 1

\* The trips of the store that belong to the owner and calendar month of q,
\* told by their primary keys.
InPeriod(t, q) == t.user = q.user /\ t.date[1] = q.year /\ t.date[2] = q.month

IdsIn(q) == {id \in 1..(nextTripId - 1) : \E t \in trips : t.id = id /\ InPeriod(t, q)}

RECURSIVE KmUpTo(_, _)
KmUpTo(n, q) ==
    IF n = 0 THEN 0
    ELSE KmUpTo(n - 1, q) +
         (IF n \in IdsIn(q) THEN (CHOOSE t \in trips : t.id = n).distance_km ELSE 0)

Finishing(r) == pc[r] # "done" /\ pc'[r] = "done"

\* C4 as stated: a request for a valid period (section 4.1) in which the
\* owner has no trips, and none is written while it runs, returns
\* insufficient_data and creates no report.
C4_EmptyPeriodInsufficient ==
    [][\A r \in Reqs :
          (/\ Finishing(r)
           /\ undisturbed[r]
           /\ validate_year_month(req'[r].year, req'[r].month, today) = "ok"
           /\ IdsIn(req'[r]) = {})
          => /\ outcome'[r].kind = "insufficient_data"
             /\ reports' = reports]_vars

\* C4 (amended): a request whose period passes validation, for which the
\* owner has no report yet and no trips, returns insufficient_data; a request
\* for a period without trips never creates a report (with an existing
\* report it is a report_conflict); every persisted report has
\* trip_count >= 1.
C4_EmptyPeriodNeverCreates ==
    /\ [](\A x \in reports : x.trip_count >= 1)
    /\ [][\A r \in Reqs :
             (Finishing(r) /\ undisturbed[r] /\ IdsIn(req'[r]) = {})
             => /\ reports' = reports
                /\ outcome'[r].kind \in
                      {"invalid_period", "report_conflict", "insufficient_data"}
                /\ (/\ ReportGenerateIsValid(req'[r].year, req'[r].month, today)
                    /\ ~\E x \in reports : SameKey(x, req'[r]))
                   => outcome'[r].kind = "insufficient_data"
                /\ (pc[r] = "idle" /\ \E x \in reports : SameKey(x, req'[r]))
                   => outcome'[r].kind = "report_conflict"]_vars

\* A request for a valid, empty period without report ended insufficient_data
\* and nothing was stored for it.
C4_Witness ==
    \E r \in Reqs :
        /\ pc[r] = "done"
        /\ outcome[r].kind = "insufficient_data"
        /\ IdsIn(req[r]) = {}
        /\ Existing(reports, r) = {}

\* C5: a generation that succeeds with no trip write during the request
\* stores trip_count = the number of the owner's trips dated in the month and
\* total_km = the sum of their distances.
C5_SnapshotMatchesTrips ==
    [][\A r \in Reqs :
          (pc[r] = "create" /\ pc'[r] = "done" /\ outcome'[r].status = 201
              /\ undisturbed[r])
          => LET row == outcome'[r].report
             IN /\ row \in reports'
                /\ SameKey(row, req[r])
                /\ row.trip_count = Cardinality(IdsIn(req[r]))
                /\ row.total_km = KmUpTo(nextTripId - 1, req[r])]_vars

\* Trips of 300.00 km and 50.25 km in 2025-12 gave trip_count 2 and
\* total_km 350.25.
C5_Witness ==
    \E x \in reports :
        /\ x.year = 2025 /\ x.month = 12
        /\ x.trip_count = 2
        /\ x.total_km = 35025
        /\ IdsIn(x) = {1, 2}

\* C6: no step changes the total_km or trip_count of a stored report; trip
\* creates, updates and deletes of its owner in particular leave them alone.
C6_SnapshotFrozen ==
    [][\A x \in reports : \A y \in reports' :
          y.id = x.id => (y.total_km = x.total_km /\ y.trip_count = x.trip_count)]_vars

\* A stored report whose period has since lost or gained trips.
C6_Witness ==
    \E x \in reports :
        \/ x.trip_count # Cardinality(IdsIn(x))
        \/ x.total_km # KmUpTo(nextTripId - 1, x)

\* C7: the checks run in the order period, existing report, trips: an
\* invalid period is invalid_period whatever is stored, a period that has a
\* report is report_conflict whatever trips exist, and insufficient_data is
\* only decided after both, on an empty period.
C7_CheckOrder ==
    [][\A r \in Reqs :
          /\ (pc[r] = "idle" /\ pc'[r] # "idle")
             => IF validate_year_month(req'[r].year, req'[r].month, today) # "ok"
                THEN pc'[r] = "done" /\ outcome'[r].kind = "invalid_period"
                ELSE IF \E x \in reports : SameKey(x, req'[r])
                THEN pc'[r] = "done" /\ outcome'[r].kind = "report_conflict"
                ELSE outcome'[r].kind # "insufficient_data"
          /\ (Finishing(r) /\ outcome'[r].kind = "insufficient_data")
             => /\ pc[r] = "count"
                /\ IdsIn(req[r]) = {}]_vars

\* A conflict answered for a period in which the owner has no trips.
C7_Witness ==
    \E r \in Reqs :
        /\ pc[r] = "done"
        /\ outcome[r].kind = "report_conflict"
        /\ IdsIn(req[r]) = {}
        /\ \A t \in trips : t.user # req[r].user

\* C8: every finished request ended in created_and_sent, created_unsent or
\* rejected with invalid_period, report_conflict or insufficient_data.
C8_TerminalStates ==
    \A r \in Reqs :
        pc[r] = "done" =>
            outcome[r].kind \in {"created_and_sent", "created_unsent", "invalid_period",
                                 "report_conflict", "insufficient_data"}

\* C9: a request is rejected as invalid_period exactly when
\* validate_year_month(year, month) fails; no other bound is applied.
C9_RejectedIffValidatorFails ==
    \A r \in Reqs :
        pc[r] # "idle" =>
            ((outcome[r].kind = "invalid_period")
                <=> (validate_year_month(req[r].year, req[r].month, today) # "ok"))

\* C10: once generation has persisted a report, delivery has been attempted
\* for it by the time the request is answered, and sent_at is set exactly
\* when a delivery succeeded.
C10_DeliveryAttempted ==
    \A r \in Reqs :
        (pc[r] = "done" /\ outcome[r].status = 201) =>
            /\ \E e \in outbox : e.report = outcome[r].report.id
            /\ \A x \in reports :
                  (x.sent_at # Null) <=> (\E e \in outbox : e.report = x.id /\ e.delivered)

\* C11: every generation request that ended in a created state has attached
\* at least one generated file (PDF or Excel) to the persisted report by the
\* time it is answered.
C11_FilesAttached ==
    \A r \in Reqs :
        (pc[r] = "done" /\ outcome[r].status = 201) =>
            \E x \in reports :
                /\ x.id = outcome[r].report.id
                /\ (x.pdf_file # Null \/ x.excel_file # Null)

\* The latest step was an invocation of calculate_distance.
Invoked == last.op = "calculate_distance"
InvokeStep == last'.op = "calculate_distance" /\ <<last, providerCalls>>' # <<last, providerCalls>>
Blank(address) == Strip(address) = <<>>
Reached(x) == ~Blank(x.start_address) /\ ~Blank(x.end_address)

\* C14: when the provider answers with top-level status OK and element
\* status NOT_FOUND, calculate_distance fails with invalid_address
\* (InvalidAddressError), not with provider_error.
C14_NotFoundIsInvalidAddress ==
    (/\ Invoked
     /\ Reached(last)
     /\ ~Raises(last.answer)
     /\ last.answer.status = "OK"
     /\ last.answer.element = "NOT_FOUND")
    => /\ last.out.kind = "invalid_address"
       /\ last.out.raised = "InvalidAddressError"

\* C15: every invocation ends as a success, invalid_address or
\* provider_error; a call that raises (provider error, timeout, anything
\* unexpected), a non-OK top-level status, element status ZERO_RESULTS, any
\* other non-OK element status except NOT_FOUND and an unexpected exception
\* in the handling of the response each give provider_error
\* (GoogleMapsAPIError), so no raw exception reaches the caller.
C15_ErrorsAreWrapped ==
    Invoked =>
        /\ last.out.kind \in {"success", "invalid_address", "provider_error"}
        /\ last.out.kind # "success"
              => last.out.raised \in {"InvalidAddressError", "GoogleMapsAPIError"}
        /\ (Reached(last) /\
              \/ Raises(last.answer)
              \/ last.answer.status # "OK"
              \/ last.answer.element \notin {"OK", "NOT_FOUND"}
              \/ ~last.answer.has_distance /\ last.answer.element = "OK")
           => /\ last.out.kind = "provider_error"
              /\ last.out.raised = "GoogleMapsAPIError"

\* An exception that is none of the provider client's three classes came out
\* of the call and reached the caller as provider_error.
C15_Witness ==
    /\ Invoked
    /\ Reached(last)
    /\ last.answer.raise = "TransportError"
    /\ last.out.kind = "provider_error"

\* C16: with a start or end address that is empty after trimming,
\* calculate_distance fails with invalid_address and makes no outbound call.
C16_BlankAddressNoCall ==
    [][(InvokeStep /\ (Blank(last'.start_address) \/ Blank(last'.end_address)))
       => /\ last'.out.kind = "invalid_address"
          /\ last'.out.calls = 0
          /\ providerCalls' = providerCalls]_vars

\* After an earlier call went out, an invocation with an all-blank end
\* address failed with invalid_address and the number of calls stayed.
C16_Witness ==
    /\ Invoked
    /\ ~Blank(last.start_address)
    /\ last.end_address = <<" ", "\t">>
    /\ last.out.kind = "invalid_address"
    /\ providerCalls = 1

\* C17: an invocation makes at most one outbound call whatever the call's
\* outcome; a call that failed or timed out is not made again, and a success
\* always comes from a call of this very invocation (nothing is cached).
C17_AtMostOneCall ==
    [][/\ providerCalls' <= providerCalls + 1
       /\ InvokeStep =>
             /\ last'.out.calls <= 1
             /\ providerCalls' = providerCalls + last'.out.calls
             /\ Reached(last') => providerCalls' = providerCalls + 1
             /\ last'.out.kind = "success" => providerCalls' = providerCalls + 1]_vars

\* Two invocations made one call each; the second one timed out.
C17_Witness ==
    /\ Invoked
    /\ last.answer.raise = "Timeout"
    /\ last.out.kind = "provider_error"
    /\ providerCalls = 2

\* C18: a success carries distance_meters = m, the provider's value, and
\* distance_km = m/1000 rounded to two decimals: off by at most 0.005, exact
\* when m is a multiple of 10, and 607.50 for m = 607500.
C18_MetersToKm ==
    (Invoked /\ last.out.kind = "success") =>
        LET m == last.answer.meters
            km == last.out.result.distance_km
        IN /\ last.out.result.distance_meters = m
           /\ 10 * km - m <= 5
           /\ m - 10 * km <= 5
           /\ (m % 10 = 0) => (10 * km = m)
           /\ (m = 607500) => (km = 60750)

\* 607500 m gave 607.50 km.
C18_Witness ==
    /\ Invoked
    /\ last.out.kind = "success"
    /\ last.answer.meters = 607500
    /\ last.out.result.distance_km = 60750
    /\ last.out.result.duration_seconds = 21600

\* The lookups of user u that reached the distance service at the instants
\* of ts.
RECURSIVE AdmittedIn(_, _)
AdmittedIn(u, ts) ==
    IF ts = {} THEN 0
    ELSE LET t == CHOOSE x \in ts : TRUE
         IN admitted[u][t] + AdmittedIn(u, ts \ {t})

\* C19: in any one-minute window at most 30 lookups of one user reach the
\* distance service, and the budget is per user: a user is refused only when
\* 30 lookups of that same user were let through in the minute before.
C19_PerUserBudget ==
    /\ \A u \in Users : \A t \in Clocks :
          AdmittedIn(u, {x \in Clocks : t <= x /\ x < t + RatePeriod}) <= RateLimit
    /\ (last.op = "calculate_distance_post" /\ last.status = 403)
          => AdmittedIn(last.user, {x \in Clocks : clock - RatePeriod < x /\ x <= clock})
                >= RateLimit

Rejections == {"invalid_period", "report_conflict", "insufficient_data"}

\* C12: a request that is rejected (a trip create or update that fails
\* validation, a generation rejected as invalid_period, report_conflict or
\* insufficient_data, a distance lookup that fails with an address or
\* provider error) leaves the Trip table and the MonthlyReport table exactly
\* as they were; so does every step of a generation request but the insert.
C12_RejectionWritesNothing ==
    [][/\ (/\ last' # last
           /\ last'.op \in {"create_trip", "update_trip"}
           /\ last'.status = 400)
          => (trips' = trips /\ reports' = reports)
       /\ (/\ last' # last
           /\ last'.op = "calculate_distance_post"
           /\ last'.status \in {400, 503})
          => (trips' = trips /\ reports' = reports)
       /\ \A r \in Reqs :
             /\ (Finishing(r) /\ outcome'[r].kind \in Rejections)
                => (trips' = trips /\ reports' = reports)
             /\ (pc'[r] # pc[r] /\ outcome'[r].status # 201)
                => (trips' = trips /\ reports' = reports)]_vars

\* With a trip and a report stored, a generation request ended in
\* report_conflict and an update of the trip was refused.
C12_Witness ==
    /\ pc[1] = "done"
    /\ outcome[1].kind = "report_conflict"
    /\ last.op = "update_trip"
    /\ last.status = 400
    /\ trips # {}
    /\ reports # {}

\* What user u owns in the store.
OwnData(u) == <<TripListOf(trips, u), ReportListOf(reports, u)>>

\* The answer to a generation request, without the primary key of a report
\* it creates.
Mask(resp) ==
    IF resp.status = 201 THEN [resp EXCEPT !.report.id = 0] ELSE resp

\* The answers user u gets to the reads and to a generation request.
ReadsOf(u) ==
    [list |-> TripListOf(trips, u),
     detail |-> [id \in 1..MaxTrips |-> TripDetailOf(trips, u, id)],
     summary |-> [p \in SummaryPeriods |-> SummaryOf(trips, u, p[1], p[2])],
     reports |-> ReportListOf(reports, u),
     report |-> [id \in 1..MaxReqs |-> ReportDetailOf(reports, u, id)]]

GenerationsOf(u) ==
    [p \in Periods |->
        GenerationOf(trips, reports, nextReportId, u, p[1], p[2], today)]

\* A finished generation request answered as GenerationOf says for the store
\* it ran on.
AnswersAsComputed ==
    \A r \in Reqs :
        Finishing(r) =>
            outcome'[r] = GenerationOf(trips, reports, nextReportId,
                                       req'[r].user, req'[r].year, req'[r].month, today)

\* A step that leaves the whole store as it was: every answer computed from
\* the store is then the same before and after.
StoreUnchanged == UNCHANGED <<trips, reports, nextReportId, today>>

\* C20 as stated: between two stores that differ only in what other users
\* own, every read and every generation request of a user gets the same
\* response.
C20_OwnDataOnly ==
    [][/\ AnswersAsComputed
       /\ \A u \in Users :
             (OwnData(u)' = OwnData(u))
             => \/ StoreUnchanged
                \/ (ReadsOf(u)' = ReadsOf(u) /\ GenerationsOf(u)' = GenerationsOf(u))]_vars

\* C20 (amended): the same, except that the primary key of a report the
\* generation creates comes from a sequence all users share.
C20_OwnDataOnlyUpToNewId ==
    [][/\ AnswersAsComputed
       /\ \A u \in Users :
             (OwnData(u)' = OwnData(u))
             => \/ StoreUnchanged
                \/ /\ ReadsOf(u)' = ReadsOf(u)
                   /\ \A p \in Periods :
                         Mask(GenerationsOf(u)[p])' = Mask(GenerationsOf(u)[p])]_vars

\* anna holds a report for 2025-12 and a trip; sami, who has a trip in that
\* month too, generated the report of the same period without a conflict
\* and lists only sami's own trips.
C20_Witness ==
    /\ \E x \in reports : x.user = "anna" /\ x.year = 2025 /\ x.month = 12
    /\ \E t \in trips : t.user = "anna"
    /\ \E r \in Reqs :
          /\ req[r].user = "sami"
          /\ outcome[r].status = 201
          /\ outcome[r].report \in reports
          /\ outcome[r].report.year = 2025
          /\ outcome[r].report.month = 12
    /\ last.op = "list_trips"
    /\ last.user = "sami"
    /\ last.body # {}
    /\ \A t \in last.body : t.user = "sami"

\* The row with this id belongs to someone else.
OwnedByOther(rows, u, id) == \E x \in rows : x.id = id /\ x.user # u

\* C21: a read, update or delete request of a user addressed to the id of
\* a Trip or MonthlyReport of another user gets the not-found outcome a
\* request addressed to the id of no row gets, never a forbidden one, and
\* leaves the row unchanged.
C21_ForeignIsNotFound ==
    [][\A u \in Users :
          /\ \A id \in TripIds :
                OwnedByOther(trips, u, id) =>
                   /\ TripDetailGet(u, id) =>
                         /\ last'.status = 404
                         /\ last'.body = TripDetailOf(trips, u, NoId)
                         /\ trips' = trips
                   /\ \A data \in TripPatches :
                         UpdateTrip(u, id, data) =>
                            /\ last'.status = 404
                            /\ UpdateTrip(u, NoId, data)
                            /\ trips' = trips
                   /\ DeleteTrip(u, id) =>
                         /\ last'.status = 404
                         /\ DeleteTrip(u, NoId)
                         /\ trips' = trips
          /\ \A id \in ReportIds :
                OwnedByOther(reports, u, id) =>
                   (ReportDetailGet(u, id) =>
                       /\ last'.status = 404
                       /\ last'.body = ReportDetailOf(reports, u, NoId)
                       /\ reports' = reports)]_vars

\* sami asked for a trip of anna by its id and got 404; the trip is still
\* there.
C21_Witness ==
    /\ last.op = "get_trip"
    /\ last.user = "sami"
    /\ last.status = 404
    /\ \E t \in trips : t.id = last.id /\ t.user = "anna"

\* The limits C22 states, in hundredths: 0 < distance <= 9999.99.
InStatedRange(v) == 0 < v /\ v <= 999999

\* A stored trip within the stated limits on the current day.
TripWithinLimits(t, now) == InStatedRange(t.distance_km) /\ ~DateAfter(t.date, now)

\* C22: after any sequence of trip creates and updates every stored Trip
\* has 0 < distance <= 9999.99 and a date not later than the day of its last
\* write; a create or update carrying a distance outside that range or a
\* future date is rejected.
C22_StoredTripsWithinLimits ==
    [][/\ \A t \in trips' : TripWithinLimits(t, today')
       /\ \A t \in trips' \ trips : TripWithinLimits(t, today)
       /\ \/ (last'.status = 400 /\ trips' = trips)
          \/ /\ \A data \in FieldInputs :
                   (~InStatedRange(data.distance_km) \/ DateAfter(data.date, today))
                   => ~CreateTrip("sami", data)
             /\ \A data \in FieldPatches :
                   (\/ ("distance_km" \in DOMAIN data /\ ~InStatedRange(data.distance_km))
                    \/ ("date" \in DOMAIN data /\ DateAfter(data.date, today)))
                   => \A id \in 1..MaxTrips :
                         (\E t \in trips : t.id = id) => ~UpdateTrip("sami", id, data)]_vars

\* A trip dated on the second day of the behaviour was stored on that day,
\* another was updated to 9999.98 km, and the latest request was rejected.
C22_Witness ==
    /\ today = Tomorrow(Today0)
    /\ \E t \in trips : t.date = today
    /\ \E t \in trips : t.distance_km = 999998 /\ t.date = Today0
    /\ last = [op |-> "update_trip", status |-> 400]

\* C23: a trip is created with the requesting user as owner, and no update
\* request, whatever fields its body carries, changes the owner, the
\* manually-entered flag or the route data of a trip.
C23_UpdateFrame ==
    [][/\ \A u \in Users, data \in CreateBodies :
             CreateTrip(u, data) => \A t \in trips' \ trips : t.user = u
       /\ \A t \in trips, n \in trips' :
             n.id = t.id =>
                /\ n.user = t.user
                /\ n.is_manual = t.is_manual
                /\ n.route_data = t.route_data]_vars

\* An update whose body carried another owner, another flag and route data
\* besides a new date was applied to sami's manually entered trip.
C23_Witness ==
    /\ last = [op |-> "update_trip", status |-> 200]
    /\ \E t \in trips :
          /\ t.date = <<2025, 11, 29>>
          /\ t.user = "sami"
          /\ t.is_manual
          /\ t.route_data = Null

\* C24: a MonthlyReport, once created, is never removed as a side effect of
\* another operation (trip deletion, further generation, profile changes,
\* deletion of the owner's account).
C24_ReportsKept == [][reports \subseteq reports']_vars

CaseClasses ==
    { {"a", "A"}, {"c", "C"}, {"e", "E"}, {"f", "F"}, {"j", "J"}, {"m", "M"},
      {"p", "P"}, {"r", "R"}, {"t", "T"}, {"v", "V"},
      {"s", "S", "U+017F"}, {"i", "I", "U+0130", "U+0131"} }

Alike(c, d) == c = d \/ \E k \in CaseClasses : c \in k /\ d \in k

\* The text contains the pattern, compared case-insensitively.
ContainsIgnoringCase(text, pattern) ==
    \E i \in 0..(Len(text) - Len(pattern)) :
        \A j \in 1..Len(pattern) : Alike(text[i + j], pattern[j])

Earlier(a, b) ==
    \/ a[1] < b[1]
    \/ a[1] = b[1] /\ a[2] < b[2]
    \/ a[1] = b[1] /\ a[2] = b[2] /\ a[3] < b[3]

\* The number of days from a up to, not including, b.
DaysBetween(a, b) ==
    Cardinality({x \in CalendarDays : ~Earlier(x, a) /\ Earlier(x, b)})

\* C27: validate_trip_date(t) succeeds if and only if
\* today - 730 days <= t <= today; it fails with date_future when t > today
\* and with date_too_old when t < today - 730 days.
C27_ValidateTripDate ==
    last.op = "validate_trip_date" =>
        LET tooOld == DaysBetween(last.value, today) > 730
        IN /\ (last.result = "ok") <=>
                 (~tooOld /\ ~Earlier(today, last.value))
           /\ Earlier(today, last.value) => last.result = "invalid_date_future"
           /\ tooOld => last.result = "invalid_date_too_old"

\* On 20 December 2025 the validator accepted 21 December 2023, 730 days
\* earlier.
C27_Witness ==
    /\ last.op = "validate_trip_date"
    /\ today = <<2025, 12, 20>>
    /\ last.value = <<2023, 12, 21>>
    /\ last.result = "ok"

C29_CountAndSumFromOneState ==
    [][\A r \in DOMAIN snaps :
          (pc[r] = "create" /\ pc'[r] = "done" /\ outcome'[r].status = 201)
          => <<outcome'[r].report.trip_count, outcome'[r].report.total_km>>
                \in snaps[r]]_vars

\* The text, or its first n characters and an ellipsis when it is longer.
IsCut(cell, text, n) ==
    IF Len(text) <= n THEN cell = text
    ELSE /\ Len(cell) = n + 3
         /\ \A j \in 1..n : cell[j] = text[j]
         /\ \A j \in (n + 1)..(n + 3) : cell[j] = "."

\* C30: the trip table has one row per trip, in the order of the sequence
\* given to the renderer; an address cell is the address when it has at
\* most 30 characters and otherwise its first 30 characters and an
\* ellipsis; the purpose cell is "-" for an absent or empty purpose, the
\* purpose when it has at most 25 characters and otherwise its first 25
\* characters and an ellipsis.
C30_TripTable ==
    last.op = "create_trip_table" =>
        /\ Len(last.data) = Len(last.trips) + 1
        /\ \A i \in 1..Len(last.trips) :
              LET trip == last.trips[i]
                  row == last.data[i + 1]
              IN /\ IsCut(row[2], trip.start_address, 30)
                 /\ IsCut(row[3], trip.end_address, 30)
                 /\ IF trip.purpose = NoPurpose THEN row[5] = <<"-">>
                    ELSE IF Len(trip.purpose) = 0 THEN row[5] = <<"-">>
                    ELSE IsCut(row[5], trip.purpose, 25)

\* A table of two trips: the first with a start address of 31, an end
\* address of 30 and a purpose of 38 characters, the second with an end
\* address of 40 characters and no purpose.
C30_Witness ==
    /\ last.op = "create_trip_table"
    /\ Len(last.trips) = 2
    /\ Len(last.trips[1].start_address) = 31
    /\ Len(last.data[2][2]) = 33
    /\ Len(last.trips[1].end_address) = 30
    /\ last.data[2][3] = last.trips[1].end_address
    /\ Len(last.trips[1].purpose) = 38
    /\ Len(last.data[2][5]) = 28
    /\ Len(last.trips[2].end_address) = 40
    /\ Len(last.data[3][3]) = 33
    /\ last.trips[2].purpose = NoPurpose
    /\ last.data[3][5] = <<"-">>

====
